---- MODULE Spec2Model ----
(***************************************************************************)
(* The configuration registry and bounds validators of config.h and        *)
(* config.cpp: three constant tables and two movement envelopes in memory, *)
(* two lookups and three validators, called in any order by two execution  *)
(* contexts (a command-handling path and a procedural-motion path).        *)
(***************************************************************************)
EXTENDS Integers, Sequences, FiniteSets, TLC

VARIABLES SERVO_MOTION_CONFIGS, SERVO_RANGES, DEFAULT_DYNAMIC_CONFIG,
          TALKING_DYNAMIC_CONFIG, calls

tables == <<SERVO_MOTION_CONFIGS, SERVO_RANGES, DEFAULT_DYNAMIC_CONFIG,
            TALKING_DYNAMIC_CONFIG>>
vars == <<SERVO_MOTION_CONFIGS, SERVO_RANGES, DEFAULT_DYNAMIC_CONFIG,
          TALKING_DYNAMIC_CONFIG, calls>>

----------------------------------------------------------------------------
(* Bounds of the explored inputs. *)

\* positions, offsets and durations are drawn within Margin of every limit
Margin == 1
\* channels 0..MaxChannel are drawn, and the largest 8-bit channel
MaxChannel == 4

----------------------------------------------------------------------------
(* config.h: constants *)

SKULL_PAN_CHANNEL == 0
SKULL_NOD_CHANNEL == 1
SKULL_JAW_CHANNEL == 2

PAN_LEFT == 4416
PAN_CENTER == 6000
PAN_RIGHT == 7232
NOD_DOWN == 4992
NOD_CENTER == 4600
NOD_UP == 4224
JAW_CLOSED == 5888
JAW_OPEN == 6528

EYE_H_LEFT == -40
EYE_H_RIGHT == 40
EYE_V_UP == -30
EYE_V_DOWN == 30

BLINK_INTERVAL_MIN_MS == 1000
BLINK_INTERVAL_MAX_MS == 5000

NUM_SERVO_MOTION_CONFIGS == 3
NUM_SERVOS == 3

TALK_SEGMENT_DURATION_MIN_MS == 200
TALK_SEGMENT_DURATION_MAX_MS == 1500
TALK_PAUSE_DURATION_MIN_MS == 100
TALK_PAUSE_DURATION_MAX_MS == 500

DEFAULT_EYE_ANIMATION_DURATION == 500
DEFAULT_BLINK_CLOSE_DURATION == 150
DEFAULT_BLINK_PAUSE_DURATION == 100
DEFAULT_BLINK_OPEN_DURATION == 150

----------------------------------------------------------------------------
(* Machine types *)

UINT8_MAX == 2^8 - 1
UINT16_MAX == 2^16 - 1
INT16_MIN == -(2^15)
INT16_MAX == 2^15 - 1
\* the largest duration explored (the model's integers are 32-bit signed)
DURATION_TOP == 2^30 + (2^30 - 1)

\* conversion of an int initialiser to a uint8_t field
ToUint8(x) == x % 2^8

\* a float is held as a multiple of 2^-26
FLOAT_ONE == 2^26

\* the float nearest to the decimal literal num/den, for 1/8 <= num/den <= 1
\* (24-bit significand, round to nearest, ties to even)
FloatLiteral(num, den) ==
    LET ulp == IF 2 * num >= den THEN 4 ELSE IF 4 * num >= den THEN 2 ELSE 1
        d == den * ulp
        n == (num * FLOAT_ONE) \div d
        r == (num * FLOAT_ONE) % d
        up == 2 * r > d \/ (2 * r = d /\ n % 2 = 1)
    IN  (IF up THEN n + 1 ELSE n) * ulp

----------------------------------------------------------------------------
(* config.h: the record types, filled by aggregate initialisers in the     *)
(* order the fields are declared                                           *)

ServoMotionConfig(a, b, c) ==
    [channel |-> ToUint8(a), speed |-> b, acceleration |-> c]

ServoRange_homeBeforeMax(a, b, c, d) ==
    [channel |-> ToUint8(a), min |-> b, home |-> c, max |-> d]

ServoRange(a, b, c, d) ==
    [channel |-> ToUint8(a), min |-> b, max |-> c, home |-> d]

DynamicModeConfig_maxFirst(a, b, c, d, e) ==
    [maxMovementInterval |-> a, minMovementInterval |-> b,
     movementIntensity |-> c,
     maxHoldDuration |-> d, minHoldDuration |-> e]

DynamicModeConfig(a, b, c, d, e) ==
    [minMovementInterval |-> a, maxMovementInterval |-> b,
     movementIntensity |-> c,
     minHoldDuration |-> d, maxHoldDuration |-> e]

\* a C array built from an initialiser list, indexed from 0
ArrayOf(list) == [i \in 0..(Len(list) - 1) |-> list[i + 1]]

----------------------------------------------------------------------------
(* config.cpp: the global definitions *)

SERVO_MOTION_CONFIGS_def ==
    ArrayOf(<<ServoMotionConfig(SKULL_PAN_CHANNEL, 60, 30),
              ServoMotionConfig(SKULL_NOD_CHANNEL, 50, 25),
              ServoMotionConfig(SKULL_JAW_CHANNEL, 0, 100)>>)

SERVO_RANGES_def ==
    ArrayOf(<<ServoRange(SKULL_PAN_CHANNEL, PAN_LEFT, PAN_RIGHT, PAN_CENTER),
              ServoRange(SKULL_NOD_CHANNEL, NOD_UP, NOD_DOWN, NOD_CENTER),
              ServoRange(SKULL_JAW_CHANNEL, JAW_CLOSED, JAW_OPEN, JAW_CLOSED)>>)

DEFAULT_DYNAMIC_CONFIG_def ==
    DynamicModeConfig(1000, 4000, FloatLiteral(7, 10), 500, 2000)

TALKING_DYNAMIC_CONFIG_def ==
    DynamicModeConfig(2000, 5000, FloatLiteral(3, 10), 500, 1500)

\* the values the field comments of TALKING_DYNAMIC_CONFIG document
TALKING_DYNAMIC_CONFIG_documented ==
    DynamicModeConfig(3000, 8000, FloatLiteral(2, 10), 500, 2000)

----------------------------------------------------------------------------
(* Linkage: what a translation unit that includes config.h can name *)

\* the objects config.cpp defines at namespace scope, all const
ConfigCppDefined ==
    {"SERVO_MOTION_CONFIGS", "SERVO_RANGES", "DEFAULT_DYNAMIC_CONFIG",
     "TALKING_DYNAMIC_CONFIG"}

\* the objects config.h declares extern
ConfigHDeclared ==
    {"SERVO_MOTION_CONFIGS", "SERVO_RANGES", "DEFAULT_DYNAMIC_CONFIG"}

\* a namespace-scope const object has external linkage only when an extern
\* declaration of it is in scope at its definition
Exposed == ConfigCppDefined \cap ConfigHDeclared

EnvelopeNames == {"DEFAULT_DYNAMIC_CONFIG", "TALKING_DYNAMIC_CONFIG"}

\* the object a name denotes
Object(name) ==
    CASE name = "DEFAULT_DYNAMIC_CONFIG" -> DEFAULT_DYNAMIC_CONFIG
      [] name = "TALKING_DYNAMIC_CONFIG" -> TALKING_DYNAMIC_CONFIG

----------------------------------------------------------------------------
(* Pointers into the tables *)

nullptr == [table |-> "null", index |-> 0]
AddressOf(name, i) == [table |-> name, index |-> i]

\* pgm_read_byte: the byte at a byte-wide field
pgm_read_byte(field) == field % 2^8

----------------------------------------------------------------------------
(* config.cpp: lookups *)

RECURSIVE getServoRange_loop(_, _)
getServoRange_loop(i, channel) ==
    IF i < NUM_SERVOS
    THEN IF pgm_read_byte(SERVO_RANGES[i].channel) = channel
         THEN AddressOf("SERVO_RANGES", i)
         ELSE getServoRange_loop(i + 1, channel)
    ELSE nullptr

RECURSIVE getServoRange_orFirst(_, _)
getServoRange_orFirst(i, channel) ==
    IF i < NUM_SERVOS
    THEN IF pgm_read_byte(SERVO_RANGES[i].channel) = channel
         THEN AddressOf("SERVO_RANGES", i)
         ELSE getServoRange_orFirst(i + 1, channel)
    ELSE AddressOf("SERVO_RANGES", 0)

getServoRange_default(channel) == getServoRange_orFirst(0, channel)

getServoRange(channel) == getServoRange_loop(0, channel)

RECURSIVE getServoMotionConfig_loop(_, _)
getServoMotionConfig_loop(i, channel) ==
    IF i < NUM_SERVO_MOTION_CONFIGS
    THEN IF pgm_read_byte(SERVO_MOTION_CONFIGS[i].channel) = channel
         THEN AddressOf("SERVO_MOTION_CONFIGS", i)
         ELSE getServoMotionConfig_loop(i + 1, channel)
    ELSE nullptr

getServoMotionConfig(channel) == getServoMotionConfig_loop(0, channel)

----------------------------------------------------------------------------
(* config.cpp: validators *)

validateServoPosition_open(channel, position) ==
    LET range == getServoRange(channel)
    IN  IF range = nullptr
        THEN FALSE
        ELSE /\ position > SERVO_RANGES[range.index].min
             /\ position < SERVO_RANGES[range.index].max

validateServoPosition(channel, position) ==
    LET range == getServoRange(channel)
    IN  IF range = nullptr
        THEN FALSE
        ELSE /\ position >= SERVO_RANGES[range.index].min
             /\ position <= SERVO_RANGES[range.index].max

MAX_H_OFFSET == 60
MAX_V_OFFSET == 30

validateEyePosition_sameBound(h_offset, v_offset) ==
    /\ h_offset >= -MAX_H_OFFSET /\ h_offset <= MAX_H_OFFSET
    /\ v_offset >= -MAX_H_OFFSET /\ v_offset <= MAX_H_OFFSET

validateEyePosition(h_offset, v_offset) ==
    /\ h_offset >= -MAX_H_OFFSET /\ h_offset <= MAX_H_OFFSET
    /\ v_offset >= -MAX_V_OFFSET /\ v_offset <= MAX_V_OFFSET

MIN_DURATION_MS == 10
MAX_DURATION_MS == 30000

validateTiming_strict(duration_ms) ==
    duration_ms > MIN_DURATION_MS /\ duration_ms < MAX_DURATION_MS

validateTiming_seconds(duration_ms) ==
    duration_ms >= MIN_DURATION_MS /\ duration_ms <= MAX_DURATION_MS \div 1000

validateTiming(duration_ms) ==
    duration_ms >= MIN_DURATION_MS /\ duration_ms <= MAX_DURATION_MS

----------------------------------------------------------------------------
(* The inputs explored *)

\* the two execution contexts that consult the registry
Callers == {"command", "motion"}

Near(S) == {x + d : x \in S, d \in (-Margin)..Margin}

Channels == (0..MaxChannel) \cup {UINT8_MAX}

PositionConstants ==
    {PAN_LEFT, PAN_CENTER, PAN_RIGHT, NOD_DOWN, NOD_CENTER, NOD_UP,
     JAW_CLOSED, JAW_OPEN}

Positions == Near(PositionConstants) \cup {0, UINT16_MAX}

HOffsets ==
    Near({-MAX_H_OFFSET, MAX_H_OFFSET})
        \cup {INT16_MIN, EYE_H_LEFT, 0, EYE_H_RIGHT, INT16_MAX}

VOffsets ==
    Near({-MAX_V_OFFSET, MAX_V_OFFSET})
        \cup {INT16_MIN, EYE_V_UP, 0, EYE_V_DOWN, INT16_MAX}

\* every duration the two files compile in
EnvelopeDurations(e) ==
    {e.minMovementInterval, e.maxMovementInterval,
     e.minHoldDuration, e.maxHoldDuration}

HeaderDurations ==
    {BLINK_INTERVAL_MIN_MS, BLINK_INTERVAL_MAX_MS,
     TALK_SEGMENT_DURATION_MIN_MS, TALK_SEGMENT_DURATION_MAX_MS,
     TALK_PAUSE_DURATION_MIN_MS, TALK_PAUSE_DURATION_MAX_MS,
     DEFAULT_EYE_ANIMATION_DURATION, DEFAULT_BLINK_CLOSE_DURATION,
     DEFAULT_BLINK_PAUSE_DURATION, DEFAULT_BLINK_OPEN_DURATION}

CompiledDurations ==
    EnvelopeDurations(DEFAULT_DYNAMIC_CONFIG)
        \cup EnvelopeDurations(TALKING_DYNAMIC_CONFIG)
        \cup HeaderDurations

Durations ==
    Near({MIN_DURATION_MS, MAX_DURATION_MS})
        \cup {0, DURATION_TOP}
        \cup EnvelopeDurations(DEFAULT_DYNAMIC_CONFIG_def)
        \cup EnvelopeDurations(TALKING_DYNAMIC_CONFIG_def)
        \cup HeaderDurations

\* the limits themselves and their neighbours, for the two-caller runs
EdgeChannels ==
    {SKULL_PAN_CHANNEL, SKULL_NOD_CHANNEL, SKULL_JAW_CHANNEL, UINT8_MAX}
EdgePositions == {PAN_LEFT - 1, PAN_LEFT, NOD_DOWN, NOD_DOWN + 1, JAW_CLOSED}
EdgeHOffsets == {-MAX_H_OFFSET - 1, 0, MAX_H_OFFSET}
EdgeVOffsets == {-MAX_V_OFFSET, 0, MAX_V_OFFSET + 1}
EdgeDurations ==
    {MIN_DURATION_MS - 1, MIN_DURATION_MS, MAX_DURATION_MS,
     MAX_DURATION_MS + 1}

----------------------------------------------------------------------------
(* The state machine: each caller's latest call, with what it returned *)

Returned(op, args, ret) == [op |-> op, args |-> args, ret |-> ret]

NoCall == Returned("none", <<>>, FALSE)

InitOf(contexts) ==
    /\ SERVO_MOTION_CONFIGS = SERVO_MOTION_CONFIGS_def
    /\ SERVO_RANGES = SERVO_RANGES_def
    /\ DEFAULT_DYNAMIC_CONFIG = DEFAULT_DYNAMIC_CONFIG_def
    /\ TALKING_DYNAMIC_CONFIG = TALKING_DYNAMIC_CONFIG_def
    /\ calls = [k \in contexts |-> NoCall]

\* a search with a sentinel stored in the table's last slot
CallGetServoRange_sentinel(k, channel) ==
    /\ SERVO_RANGES' =
         [SERVO_RANGES EXCEPT ![NUM_SERVOS - 1].channel = channel]
    /\ calls' = [calls EXCEPT ![k] =
         Returned("getServoRange", <<channel>>,
                  IF getServoRange(channel) = nullptr
                  THEN AddressOf("SERVO_RANGES", NUM_SERVOS - 1)
                  ELSE getServoRange(channel))]
    /\ UNCHANGED <<SERVO_MOTION_CONFIGS, DEFAULT_DYNAMIC_CONFIG,
                   TALKING_DYNAMIC_CONFIG>>

CallGetServoRange(k, channel) ==
    /\ calls' = [calls EXCEPT ![k] =
         Returned("getServoRange", <<channel>>, getServoRange(channel))]
    /\ UNCHANGED tables

CallGetServoMotionConfig(k, channel) ==
    /\ calls' = [calls EXCEPT ![k] =
         Returned("getServoMotionConfig", <<channel>>,
                  getServoMotionConfig(channel))]
    /\ UNCHANGED tables

CallValidateServoPosition(k, channel, position) ==
    /\ calls' = [calls EXCEPT ![k] =
         Returned("validateServoPosition", <<channel, position>>,
                  validateServoPosition(channel, position))]
    /\ UNCHANGED tables

CallValidateEyePosition(k, h_offset, v_offset) ==
    /\ calls' = [calls EXCEPT ![k] =
         Returned("validateEyePosition", <<h_offset, v_offset>>,
                  validateEyePosition(h_offset, v_offset))]
    /\ UNCHANGED tables

CallValidateTiming(k, duration_ms) ==
    /\ calls' = [calls EXCEPT ![k] =
         Returned("validateTiming", <<duration_ms>>,
                  validateTiming(duration_ms))]
    /\ UNCHANGED tables

\* a caller reads an envelope it can name through config.h
ReadEnvelope(k, name) ==
    /\ name \in Exposed
    /\ calls' = [calls EXCEPT ![k] =
         Returned("readEnvelope", <<name>>, Object(name))]
    /\ UNCHANGED tables

\* one context, inputs around every limit
Init == InitOf({"command"})

Next ==
    \E k \in {"command"} :
        \/ \E c \in Channels : CallGetServoRange(k, c)
        \/ \E c \in Channels : CallGetServoMotionConfig(k, c)
        \/ \E c \in Channels, p \in Positions :
               CallValidateServoPosition(k, c, p)
        \/ \E h \in HOffsets, v \in VOffsets : CallValidateEyePosition(k, h, v)
        \/ \E d \in Durations : CallValidateTiming(k, d)
        \/ \E n \in EnvelopeNames : ReadEnvelope(k, n)

Spec == Init /\ [][Next]_vars

\* both contexts, their calls interleaved in every order
InitCallers == InitOf(Callers)

NextCallers ==
    \E k \in Callers :
        \/ \E c \in EdgeChannels : CallGetServoRange(k, c)
        \/ \E c \in EdgeChannels : CallGetServoMotionConfig(k, c)
        \/ \E c \in EdgeChannels, p \in EdgePositions :
               CallValidateServoPosition(k, c, p)
        \/ \E h \in EdgeHOffsets, v \in EdgeVOffsets :
               CallValidateEyePosition(k, h, v)
        \/ \E d \in EdgeDurations : CallValidateTiming(k, d)
        \/ \E n \in EnvelopeNames : ReadEnvelope(k, n)

SpecCallers == InitCallers /\ [][NextCallers]_vars

----------------------------------------------------------------------------
(* Properties *)

Called(op) == {k \in DOMAIN calls : calls[k].op = op}

\* C1: validateServoPosition(c, p) returns true exactly when SERVO_RANGES
\* has an entry for channel c and that entry's min <= p <= max, both ends
\* included; for a channel with no entry it returns false for every position.
C1_PositionInClosedRange ==
    \A k \in Called("validateServoPosition") :
        LET c == calls[k].args[1]
            p == calls[k].args[2]
        IN  calls[k].ret =
              (\E i \in DOMAIN SERVO_RANGES :
                  /\ SERVO_RANGES[i].channel = c
                  /\ SERVO_RANGES[i].min <= p
                  /\ p <= SERVO_RANGES[i].max)

\* the jaw's upper limit itself has been accepted
C1_Witness ==
    \E k \in DOMAIN calls :
        calls[k] = Returned("validateServoPosition",
                            <<SKULL_JAW_CHANNEL, JAW_OPEN>>, TRUE)

\* C2: getServoRange(c) and getServoMotionConfig(c) each return the first
\* entry of their own table whose channel field equals c, and nullptr exactly
\* when that table has no entry with channel c (never a default record).
C2_LookupFirstMatchOrNull ==
    /\ \A k \in Called("getServoRange") :
        LET c == calls[k].args[1]
            r == calls[k].ret
        IN  /\ (r = nullptr) <=>
                 ~ \E i \in DOMAIN SERVO_RANGES : SERVO_RANGES[i].channel = c
            /\ r # nullptr =>
                 /\ r.table = "SERVO_RANGES"
                 /\ r.index \in DOMAIN SERVO_RANGES
                 /\ SERVO_RANGES[r.index].channel = c
                 /\ \A j \in 0..(r.index - 1) : SERVO_RANGES[j].channel # c
    /\ \A k \in Called("getServoMotionConfig") :
        LET c == calls[k].args[1]
            r == calls[k].ret
        IN  /\ (r = nullptr) <=>
                 ~ \E i \in DOMAIN SERVO_MOTION_CONFIGS :
                       SERVO_MOTION_CONFIGS[i].channel = c
            /\ r # nullptr =>
                 /\ r.table = "SERVO_MOTION_CONFIGS"
                 /\ r.index \in DOMAIN SERVO_MOTION_CONFIGS
                 /\ SERVO_MOTION_CONFIGS[r.index].channel = c
                 /\ \A j \in 0..(r.index - 1) :
                        SERVO_MOTION_CONFIGS[j].channel # c

\* a lookup of a channel outside the table has returned nullptr
C2_Witness ==
    \E k \in DOMAIN calls :
        calls[k] = Returned("getServoRange", <<UINT8_MAX>>, nullptr)

\* C3: validateEyePosition(h, v) returns true exactly when -60 <= h <= 60
\* and -30 <= v <= 30 both hold.
C3_EyeOffsetInBounds ==
    \A k \in Called("validateEyePosition") :
        LET h == calls[k].args[1]
            v == calls[k].args[2]
        IN  calls[k].ret = (-60 <= h /\ h <= 60 /\ -30 <= v /\ v <= 30)

\* (0, 31) has been rejected
C3_Witness ==
    \E k \in DOMAIN calls :
        calls[k] = Returned("validateEyePosition", <<0, 31>>, FALSE)

\* C4: validateTiming(ms) returns true exactly when 10 <= ms <= 30000.
C4_DurationInBounds ==
    \A k \in Called("validateTiming") :
        LET ms == calls[k].args[1]
        IN  calls[k].ret = (10 <= ms /\ ms <= 30000)

\* 30000 ms has been accepted
C4_Witness ==
    \E k \in DOMAIN calls :
        calls[k] = Returned("validateTiming", <<30000>>, TRUE)

\* C5: every entry of SERVO_RANGES satisfies min <= home <= max, with the
\* fields as the table initialisers fill them.
C5_HomeWithinRange ==
    \A i \in DOMAIN SERVO_RANGES :
        /\ SERVO_RANGES[i].min <= SERVO_RANGES[i].home
        /\ SERVO_RANGES[i].home <= SERVO_RANGES[i].max

\* a caller holds the jaw's entry, whose home is its lower limit
C5_Witness ==
    \E k \in Called("getServoRange") :
        /\ calls[k].ret # nullptr
        /\ SERVO_RANGES[calls[k].ret.index].channel = SKULL_JAW_CHANNEL
        /\ SERVO_RANGES[calls[k].ret.index].home = JAW_CLOSED
        /\ SERVO_RANGES[calls[k].ret.index].min = JAW_CLOSED

EnvelopeConsistent(e) ==
    /\ e.minMovementInterval <= e.maxMovementInterval
    /\ e.minHoldDuration <= e.maxHoldDuration
    /\ e.minMovementInterval > 0 /\ e.maxMovementInterval > 0
    /\ e.minHoldDuration > 0 /\ e.maxHoldDuration > 0
    /\ 0 <= e.movementIntensity
    /\ e.movementIntensity <= FloatLiteral(1, 1)

\* C6: both movement envelopes have minMovementInterval <=
\* maxMovementInterval, minHoldDuration <= maxHoldDuration, all four
\* positive, and 0.0 <= movementIntensity <= 1.0.
C6_EnvelopesConsistent ==
    /\ EnvelopeConsistent(DEFAULT_DYNAMIC_CONFIG)
    /\ EnvelopeConsistent(TALKING_DYNAMIC_CONFIG)

\* a caller has read the default envelope
C6_Witness ==
    \E k \in Called("readEnvelope") :
        /\ calls[k].args = <<"DEFAULT_DYNAMIC_CONFIG">>
        /\ calls[k].ret.minMovementInterval = 1000
        /\ calls[k].ret.maxHoldDuration = 2000

\* C7: whatever calls the callers make, in whatever order, the three tables
\* and both envelopes keep their initial contents, and two calls of the same
\* operation with the same arguments return the same result.
C7_PureReads ==
    /\ SERVO_MOTION_CONFIGS = SERVO_MOTION_CONFIGS_def
    /\ SERVO_RANGES = SERVO_RANGES_def
    /\ DEFAULT_DYNAMIC_CONFIG = DEFAULT_DYNAMIC_CONFIG_def
    /\ TALKING_DYNAMIC_CONFIG = TALKING_DYNAMIC_CONFIG_def
    /\ \A k1 \in DOMAIN calls, k2 \in DOMAIN calls :
         (calls[k1].op = calls[k2].op /\ calls[k1].args = calls[k2].args)
             => calls[k1].ret = calls[k2].ret

\* both callers have looked up the jaw's range, and got the same entry
C7_Witness ==
    /\ calls["command"] =
         Returned("getServoRange", <<SKULL_JAW_CHANNEL>>,
                  AddressOf("SERVO_RANGES", 2))
    /\ calls["motion"] = calls["command"]

\* C8: a caller that includes config.h can select either
\* DEFAULT_DYNAMIC_CONFIG or TALKING_DYNAMIC_CONFIG.
C8_BothEnvelopesSelectable ==
    \A k \in DOMAIN calls, n \in EnvelopeNames : ENABLED ReadEnvelope(k, n)

\* C9: validateTiming returns true for every duration compiled in: the
\* movement intervals and hold durations of both envelopes and the blink,
\* talk and animation duration constants of config.h.
C9_CompiledDurationsValid ==
    /\ \A d \in CompiledDurations : validateTiming(d)
    /\ \A k \in Called("validateTiming") :
         calls[k].args[1] \in CompiledDurations => calls[k].ret = TRUE

\* the talking envelope's longest movement interval has been accepted
C9_Witness ==
    \E k \in DOMAIN calls :
        calls[k] = Returned("validateTiming",
                            <<TALKING_DYNAMIC_CONFIG.maxMovementInterval>>,
                            TRUE)

\* C10: TALKING_DYNAMIC_CONFIG holds the values its field comments document:
\* intervals of 3000 and 8000 ms, intensity 0.2, holds of 500 and 2000 ms.
C10_TalkingAsDocumented ==
    TALKING_DYNAMIC_CONFIG = TALKING_DYNAMIC_CONFIG_documented

====
